---- MODULE Spec2Model ----
(***************************************************************************)
(* The request workflow of agents/agents.py: run_workflow builds a         *)
(* GraphState, graph.invoke runs primary_agent, the conditional edge       *)
(* route_to_specialist, at most one specialist node and response_generator.*)
(* Texts (Python str values) are sequences of tokens: a token is a         *)
(* whitespace character or a word, so that str.strip() and string equality *)
(* are computed and not assumed.                                           *)
(*                                                                         *)
(* Specifications:                                                         *)
(*   Spec, FairSpec, FairSpecReturns  one run_workflow call at a time      *)
(*   SpecSpecialists  the specialists applied to drawn inputs              *)
(*   SpecSearch       ProductSearchAgent.search_products on drawn inputs   *)
(*   SpecLoop         the interactive loop of __main__                     *)
(*   SpecRequests     several run_workflow calls side by side              *)
(*   SpecSlots, FairSpecSlots  BookingAgent.find_available_slots           *)
(*   SpecUpdate       the update path of book_appointment                   *)
(***************************************************************************)
EXTENDS Integers, Sequences, FiniteSets, TLC

VARIABLES
    status,     \* where the caller of run_workflow stands: idle, running, returned, raised
    node,       \* the graph node graph.invoke runs next
    state,      \* the GraphState carried through the graph
    calls,      \* the specialist calls made by this run, in order (callee, argument, returned)
    trace,      \* the nodes this run has executed, in order
    prompts,    \* the prompts response_generator sent (input and serialised context)
    completions,\* what the completion calls of primary_agent and response_generator gave
    result,     \* the value run_workflow returned
    trial,      \* one application of a function to drawn inputs, and what it gave
    loop,       \* the interactive loop of __main__: where it stands, what it read and ran
    requests,   \* the run_workflow calls in progress side by side, by request
    heap,       \* the dict objects those calls created, by identity
    stub        \* the deterministic model and specialists those calls are served by

vars == <<status, node, state, calls, trace, prompts, completions, result>>

\* What the variables besides those of a single run_workflow call hold
others == <<trial, loop, requests, heap, stub>>

----------------------------------------------------------------------------
(* Bounds *)

MaxReplyLen == 2

MaxSynthLen == 2

----------------------------------------------------------------------------
(* Texts *)

WS == " "

RECURSIVE lstrip(_)
lstrip(s) == IF s # <<>> /\ Head(s) = WS THEN lstrip(Tail(s)) ELSE s

RECURSIVE rstrip(_)
rstrip(s) == IF s # <<>> /\ s[Len(s)] = WS THEN rstrip(SubSeq(s, 1, Len(s) - 1)) ELSE s

strip(s) == rstrip(lstrip(s))

SeqsUpTo(S, n) == UNION {[1..k -> S] : k \in 0..n}

----------------------------------------------------------------------------
(* agents.py: AgentAction, GraphState *)

POLICY_QUERY == <<"policy_query">>

BOOKING == <<"booking">>

DB_QUERY == <<"db_query">>

FINAL_RESPONSE == <<"final_response">>

AgentAction == {POLICY_QUERY, BOOKING, DB_QUERY, FINAL_RESPONSE}

EmptyDict == [k \in {} |-> [type |-> "str", text |-> <<>>]]

DictSet(d, k, v) == [x \in (DOMAIN d) \cup {k} |-> IF x = k THEN v ELSE d[x]]

GraphState(user_input) ==
    [input |-> user_input, action |-> <<>>, response |-> <<>>,
     context |-> EmptyDict, final_response |-> <<>>]

Str(t) == [type |-> "str", text |-> t]

----------------------------------------------------------------------------
(* The language model: a completion call returns a text or fails *)

LLM(replies) ==
    {[kind |-> "ok", content |-> c] : c \in replies} \cup {[kind |-> "raise", content |-> <<>>]}

Return(v) == [raised |-> FALSE, value |-> v]

Raise == [raised |-> TRUE, value |-> Str(<<>>)]

----------------------------------------------------------------------------
(* specialized_agents/policy_agent.py *)

PolicyReplies == {<<"30-day returns">>, <<"30-day returns", WS>>}

PolicyEnv ==
    [store : {"ok", "raise"}, found : BOOLEAN, llm : LLM(PolicyReplies)]

DocumentSearchAgent_generate_response(env) ==
    IF env.llm.kind = "raise"
    THEN <<"Error generating response from context.">>
    ELSE strip(env.llm.content)

\* search_docs without the test for an empty result list
search_docs_no_empty_check(user_input, env) ==
    IF env.store = "raise"
    THEN <<"Error retrieving information from company policies.">>
    ELSE DocumentSearchAgent_generate_response(env)

search_docs(user_input, env) ==
    IF env.store = "raise"
    THEN <<"Error retrieving information from company policies.">>
    ELSE IF ~env.found
    THEN <<"No relevant information found.">>
    ELSE DocumentSearchAgent_generate_response(env)

----------------------------------------------------------------------------
(* specialized_agents/products_agent.py *)

ProductReplies == {<<"P001">>, <<WS, "P001">>}

ProductEnv ==
    [catalog : {"ok", "raise"}, empty : BOOLEAN, llm : LLM(ProductReplies)]

ProductSearchAgent_generate_response(env) ==
    IF env.empty
    THEN <<"No matching products found.">>
    ELSE IF env.llm.kind = "raise"
    THEN <<"Error generating response about products.">>
    ELSE strip(env.llm.content)

search_products(user_input, env) ==
    IF env.catalog = "raise"
    THEN <<"Error retrieving product information.">>
    ELSE IF env.empty
    THEN <<"No matching products found.">>
    ELSE ProductSearchAgent_generate_response(env)

----------------------------------------------------------------------------
(* specialized_agents/booking_agent.py *)

None == "None"

NoKey == "<missing>"

\* What parse_user_intent can give: the call or json.loads fails, or a dict
\* whose "action" and "meeting_reference" keys the model may have left out.
IntentOutcomes ==
    {[kind |-> "raise", action |-> NoKey, meeting_reference |-> NoKey]} \cup
    [kind : {"dict"},
     action : {"book", "update", "cancel", "reschedule", NoKey},
     meeting_reference : {"standup", NoKey}]

\* What extract_meeting_details can give: the completion call fails (outside
\* its try), or a dict (the decoded reply, or the defaults on a decode error)
\* that may lack keys and whose preferred_time may be null.
DetailsOutcomes ==
    {[kind |-> "raise", complete |-> FALSE, preferred_time |-> None]} \cup
    [kind : {"dict"}, complete : BOOLEAN, preferred_time : {None, "10:00"}]

\* What the calls inside find_event can give: the date_info completion (or
\* its json.loads) fails; or events().list fails; or the window holds no
\* event; or it holds events and the match completion fails or names an
\* event id, null, or an id that is not in the window.  What a call gives
\* that is not reached is left at its first value.
LookupOutcomes ==
    {[date_info |-> "raise", list |-> [kind |-> "raise", items |-> <<>>],
      match |-> [kind |-> "raise", event_id |-> None]],
     [date_info |-> "ok", list |-> [kind |-> "raise", items |-> <<>>],
      match |-> [kind |-> "raise", event_id |-> None]],
     [date_info |-> "ok", list |-> [kind |-> "ok", items |-> <<>>],
      match |-> [kind |-> "raise", event_id |-> None]]} \cup
    [date_info : {"ok"},
     list : {[kind |-> "ok", items |-> <<"evt1", "evt2">>]},
     match : {[kind |-> "raise", event_id |-> None],
              [kind |-> "ok", event_id |-> None],
              [kind |-> "ok", event_id |-> "evt2"],
              [kind |-> "ok", event_id |-> "evt9"]}]

BookingEnv ==
    [auth : {"ok", "raise"},
     intent : IntentOutcomes,
     lookup : LookupOutcomes,
     details : DetailsOutcomes,
     slots : {<<>>, <<"09:00">>, <<"09:00", "09:30">>},
     calendar : {"ok", "raise"}]

\* find_event returning the first event of the window when the model names
\* an id that is not in the list
BookingAgent_find_event_guesses(env) ==
    IF env.lookup.date_info = "raise" THEN None
    ELSE IF env.lookup.list.kind = "raise" THEN None
    ELSE LET events == env.lookup.list.items IN
    IF events = <<>> THEN None
    ELSE IF env.lookup.match.kind = "raise" THEN None
    ELSE LET event_id == env.lookup.match.event_id IN
    IF event_id = None THEN None
    ELSE IF \E i \in DOMAIN events : events[i] = event_id
    THEN event_id
    ELSE events[1]

\* The event found is stood for by its id.  Every fault inside the lookup is
\* caught and gives None.
BookingAgent_find_event(env) ==
    IF env.lookup.date_info = "raise" THEN None            \* except: return None
    ELSE IF env.lookup.list.kind = "raise" THEN None       \* except: return None
    ELSE LET events == env.lookup.list.items IN
    IF events = <<>> THEN None                             \* if not events
    ELSE IF env.lookup.match.kind = "raise" THEN None      \* except: return None
    ELSE LET event_id == env.lookup.match.event_id IN
    IF event_id = None THEN None                           \* if not event_id
    ELSE IF \E i \in DOMAIN events : events[i] = event_id
    THEN event_id                                          \* matching_event
    ELSE None                                              \* next(..., None)

\* find_available_slots giving the first slot of the day when it found none
BookingAgent_find_available_slots_default(env) ==
    IF env.slots = <<>> THEN <<"09:00">> ELSE env.slots

BookingAgent_find_available_slots(env) == env.slots

BookingAgent_delete_event(event_id, env) ==
    IF env.calendar = "ok"
    THEN [type |-> "dict", status |-> "success",
          action_taken |-> "Event cancelled successfully", event_id |-> event_id]
    ELSE [type |-> "dict", status |-> "error",
          action_taken |-> "Failed to cancel event", message |-> "calendar error"]

BookingAgent_update_event(event_id, env) ==
    IF env.calendar = "ok"
    THEN [type |-> "dict", status |-> "success",
          action_taken |-> "Event updated successfully", event_id |-> event_id]
    ELSE [type |-> "dict", status |-> "error",
          action_taken |-> "Failed to update event", message |-> "calendar error"]

BookingAgent_create_meeting(selected_time, env) ==
    IF env.calendar = "ok"
    THEN [type |-> "dict", status |-> "success",
          action_taken |-> "Meeting created successfully", start_time |-> selected_time]
    ELSE [type |-> "dict", status |-> "error",
          action_taken |-> "Failed to create meeting", message |-> "calendar error"]

\* The requests the calendar operations send to the events() resource, in
\* order.  update_event reads the event before it writes it; a failing
\* calendar fails the first request of the operation.
ApiCall(op, event_id) == [op |-> op, eventId |-> event_id]

BookingAgent_delete_event_requests(event_id, env) == <<ApiCall("delete", event_id)>>

BookingAgent_update_event_requests(event_id, env) ==
    IF env.calendar = "ok"
    THEN <<ApiCall("get", event_id), ApiCall("update", event_id)>>
    ELSE <<ApiCall("get", event_id)>>

\* create_meeting sends one insert, for an event starting at selected_time
BookingAgent_create_meeting_requests(selected_time, env) ==
    <<[op |-> "insert", eventId |-> None, selected_time |-> selected_time]>>

\* result.update(...) leaving the payload of the calendar call as it is
Update_keeps_payload(payload, extra) == payload

\* result.update({...}): the keys added to the payload of the calendar call
Update(payload, extra) ==
    [k \in (DOMAIN payload) \cup (DOMAIN extra) |->
        IF k \in DOMAIN extra THEN extra[k] ELSE payload[k]]

MeetingSearchFailed(action) ==
    [type |-> "dict", status |-> "error",
     message |-> "Could not find the specified meeting",
     action_taken |-> "Meeting search failed",
     action_type |-> action, action_details |-> "intent"]

SlotSearchFailed(action) ==
    [type |-> "dict", status |-> "error",
     message |-> "No available slots found for the specified date",
     action_taken |-> "Slot search failed",
     action_type |-> action, action_details |-> "meeting_details"]

\* The values Python takes as false in `if meeting_details.get('preferred_time')`
Falsy == {None, ""}

\* the selection always taking the first free slot
selected_time_of_first_slot(details, available_slots) == available_slots[1]

\* meeting_details['preferred_time'] if meeting_details.get('preferred_time')
\* else available_slots[0]['start']
selected_time_of(details, available_slots) ==
    IF details.preferred_time \notin Falsy
    THEN details.preferred_time
    ELSE available_slots[1]

\* What a call of book_appointment gives (a payload, or a fault) and the
\* requests it sent to the calendar's events() resource
Steps(outcome, api) == [raised |-> outcome.raised, value |-> outcome.value, api |-> api]

book_appointment_steps(user_input, env) ==
    IF env.auth = "raise" THEN Steps(Raise, <<>>)                \* BookingAgent()
    ELSE IF env.intent.kind = "raise" THEN Steps(Raise, <<>>)    \* parse_user_intent
    ELSE IF env.intent.action = NoKey THEN Steps(Raise, <<>>)    \* intent['action']
    ELSE LET action == env.intent.action IN
    IF action \in {"cancel", "update"}
    THEN IF env.intent.meeting_reference = NoKey THEN Steps(Raise, <<>>)
         ELSE LET event == BookingAgent_find_event(env) IN
         IF event = None THEN Steps(Return(MeetingSearchFailed(action)), <<>>)
         ELSE IF action = "cancel"
         THEN Steps(Return(Update(BookingAgent_delete_event(event, env),
                     [action_type |-> action, action_details |-> "intent",
                      original_meeting |-> "standup"])),
                    BookingAgent_delete_event_requests(event, env))
         ELSE IF env.details.kind = "raise" THEN Steps(Raise, <<>>)  \* extract_meeting_details
         ELSE Steps(Return(Update(BookingAgent_update_event(event, env),
                     [action_type |-> action, action_details |-> "intent",
                      original_meeting |-> "standup"])),
                    BookingAgent_update_event_requests(event, env))
    ELSE IF env.details.kind = "raise" THEN Steps(Raise, <<>>)   \* extract_meeting_details
    ELSE IF ~env.details.complete THEN Steps(Raise, <<>>)        \* meeting_details['preferred_date']
    ELSE LET available_slots == BookingAgent_find_available_slots(env) IN
    IF available_slots = <<>> THEN Steps(Return(SlotSearchFailed(action)), <<>>)
    ELSE LET selected_time == selected_time_of(env.details, available_slots)
         IN Steps(Return(Update(BookingAgent_create_meeting(selected_time, env),
                    [action_type |-> action, action_details |-> "meeting_details",
                     available_slots |-> available_slots])),
                  BookingAgent_create_meeting_requests(selected_time, env))

book_appointment(user_input, env) ==
    LET done == book_appointment_steps(user_input, env)
    IN [raised |-> done.raised, value |-> done.value]

----------------------------------------------------------------------------
(* agents.py: the nodes.  A node takes the GraphState and what its external  *)
(* calls give, and yields the GraphState it returns, the specialist calls it *)
(* made and the prompt it sent, or raises.                                   *)

Out(s, cs, ps) == [raised |-> FALSE, state |-> s, calls |-> cs, prompts |-> ps]

Raised(s, cs) == [raised |-> TRUE, state |-> s, calls |-> cs, prompts |-> <<>>]

Call(callee, arg, outcome) == [callee |-> callee, arg |-> arg, outcome |-> outcome]

ReplyAlphabet ==
    {WS, "policy_query", "booking", "db_query", "product_query", "final_response"}

ClassifierReplies == SeqsUpTo(ReplyAlphabet, MaxReplyLen)

\* primary_agent keeping the reply as the model wrote it, without strip()
primary_agent_no_strip(s, llm) ==
    IF llm.kind = "raise"
    THEN Raised(s, <<>>)
    ELSE Out([s EXCEPT !.action = llm.content], <<>>, <<>>)

primary_agent(s, llm) ==
    IF llm.kind = "raise"
    THEN Raised(s, <<>>)
    ELSE LET action == strip(llm.content)
         IN Out([s EXCEPT !.action = action], <<>>, <<>>)

\* policy_agent calling its specialist with the action instead of the input
policy_agent_passes_action(s, env) ==
    LET policy_response == Str(search_docs(s.action, env))
    IN Out([s EXCEPT !.context = DictSet(@, "policy_info", policy_response)],
           <<Call("search_docs", s.action, Return(policy_response))>>, <<>>)

policy_agent(s, env) ==
    LET policy_response == Str(search_docs(s.input, env))
    IN Out([s EXCEPT !.context = DictSet(@, "policy_info", policy_response)],
           <<Call("search_docs", s.input, Return(policy_response))>>, <<>>)

\* booking_agent keeping only the payloads whose status is success
booking_agent_drops_errors(s, env) ==
    LET booking_response == book_appointment(s.input, env)
    IN IF booking_response.raised
       THEN Raised(s, <<Call("book_appointment", s.input, Raise)>>)
       ELSE IF booking_response.value.status = "error"
       THEN Out(s, <<Call("book_appointment", s.input, booking_response)>>, <<>>)
       ELSE Out([s EXCEPT !.context = DictSet(@, "booking_info", booking_response.value)],
                <<Call("book_appointment", s.input, booking_response)>>, <<>>)

booking_agent(s, env) ==
    LET booking_response == book_appointment(s.input, env)
    IN IF booking_response.raised
       THEN Raised(s, <<Call("book_appointment", s.input, Raise)>>)
       ELSE Out([s EXCEPT !.context = DictSet(@, "booking_info", booking_response.value)],
                <<Call("book_appointment", s.input, booking_response)>>, <<>>)

\* products_agent storing its result under the policy key
products_agent_wrong_key(s, env) ==
    LET products_response == Str(search_products(s.input, env))
    IN Out([s EXCEPT !.context = DictSet(@, "policy_info", products_response)],
           <<Call("search_products", s.input, Return(products_response))>>, <<>>)

products_agent(s, env) ==
    LET products_response == Str(search_products(s.input, env))
    IN Out([s EXCEPT !.context = DictSet(@, "products_info", products_response)],
           <<Call("search_products", s.input, Return(products_response))>>, <<>>)

\* json.dumps of one value: a str becomes a JSON string of its characters, a
\* dict a JSON object of its members; the Python type is not part of the text.
json_value(v) ==
    IF v.type = "str"
    THEN [json |-> "string", chars |-> v.text]
    ELSE [json |-> "object", members |-> [f \in (DOMAIN v) \ {"type"} |-> v[f]]]

json_dumps(d) == [k \in DOMAIN d |-> json_value(d[k])]

SynthAlphabet == {WS, "Hello", "|", "null", "P001"}

SynthReplies == SeqsUpTo(SynthAlphabet, MaxSynthLen)

\* response_generator writing its answer to the response field as well
response_generator_writes_response(s, llm) ==
    LET context == json_dumps(s.context)
        sent == <<[input |-> s.input, context |-> context]>>
    IN IF llm.kind = "raise"
       THEN [raised |-> TRUE, state |-> s, calls |-> <<>>, prompts |-> sent]
       ELSE Out([s EXCEPT !.final_response = strip(llm.content),
                          !.response = strip(llm.content)], <<>>, sent)

response_generator(s, llm) ==
    LET context == json_dumps(s.context)
        sent == <<[input |-> s.input, context |-> context]>>
    IN IF llm.kind = "raise"
       THEN [raised |-> TRUE, state |-> s, calls |-> <<>>, prompts |-> sent]
       ELSE Out([s EXCEPT !.final_response = strip(llm.content)], <<>>, sent)

\* route_to_specialist with the policy and booking targets exchanged
route_to_specialist_swapped(s) ==
    IF s.action = POLICY_QUERY THEN "booking_agent"
    ELSE IF s.action = BOOKING THEN "policy_agent"
    ELSE IF s.action = DB_QUERY THEN "products_agent"
    ELSE "response_generator"

\* route_to_specialist without its last line: Python then returns None
route_to_specialist_no_default(s) ==
    IF s.action = POLICY_QUERY THEN "policy_agent"
    ELSE IF s.action = BOOKING THEN "booking_agent"
    ELSE IF s.action = DB_QUERY THEN "products_agent"
    ELSE None

route_to_specialist(s) ==
    IF s.action = POLICY_QUERY THEN "policy_agent"
    ELSE IF s.action = BOOKING THEN "booking_agent"
    ELSE IF s.action = DB_QUERY THEN "products_agent"
    ELSE "response_generator"

----------------------------------------------------------------------------
(* agents.py: the graph *)

START == "__start__"

END == "__end__"

\* builder.add_conditional_edges("primary_agent", route_to_specialist, {...})
path_map ==
    [policy_agent |-> "policy_agent", booking_agent |-> "booking_agent",
     products_agent |-> "products_agent", response_generator |-> "response_generator"]

\* the edges with policy_agent wired to END instead of response_generator
edges_policy_to_end ==
    [__start__ |-> "primary_agent", policy_agent |-> END,
     booking_agent |-> "response_generator", products_agent |-> "response_generator",
     response_generator |-> END]

\* builder.add_edge(...)
edges ==
    [__start__ |-> "primary_agent", policy_agent |-> "response_generator",
     booking_agent |-> "response_generator", products_agent |-> "response_generator",
     response_generator |-> END]

UserInputs == {<<"hello">>, <<"book", WS, "a", WS, "meeting">>}

KeyError == "<KeyError>"

\* The conditional edge out of primary_agent: the router's answer looked up
\* in the path map.
conditional_edges(s) ==
    LET target == route_to_specialist(s)
    IN IF target \in DOMAIN path_map THEN path_map[target] ELSE KeyError

----------------------------------------------------------------------------
(* agents.py: run_workflow and graph.invoke *)

InitRun ==
    /\ status = "idle"
    /\ node = START
    /\ state = GraphState(<<>>)
    /\ calls = <<>>
    /\ trace = <<>>
    /\ prompts = <<>>
    /\ completions = <<>>
    /\ result = <<>>

\* The variables a specification does not use rest at these values
NoTrial == [fn |-> "none"]

NoLoop == [pc |-> "off"]

NoStub == [kind |-> "none"]

Init ==
    /\ InitRun
    /\ trial = NoTrial
    /\ loop = NoLoop
    /\ requests = <<>>
    /\ heap = <<>>
    /\ stub = NoStub

run_workflow(user_input) ==
    /\ status # "running"
    /\ status' = "running"
    /\ state' = GraphState(user_input)
    /\ node' = edges[START]
    /\ calls' = <<>>
    /\ trace' = <<>>
    /\ prompts' = <<>>
    /\ completions' = <<>>
    /\ result' = <<>>

\* One step of graph.invoke: node n has run with outcome out; a fault in the
\* node or in the edge lookup leaves invoke, otherwise nxt runs next.
Advance(n, out, nxt, got) ==
    /\ trace' = Append(trace, n)
    /\ calls' = calls \o out.calls
    /\ prompts' = prompts \o out.prompts
    /\ completions' = completions \o got
    /\ state' = out.state
    /\ IF out.raised \/ nxt = KeyError
       THEN status' = "raised" /\ node' = node
       ELSE status' = status /\ node' = nxt
    /\ UNCHANGED result
    /\ UNCHANGED others

invoke_primary_agent(llms) ==
    /\ status = "running"
    /\ node = "primary_agent"
    /\ \E llm \in llms :
          LET out == primary_agent(state, llm)
          IN Advance("primary_agent", out, conditional_edges(out.state),
                     <<[by |-> "primary_agent", outcome |-> llm]>>)

invoke_policy_agent(envs) ==
    /\ status = "running"
    /\ node = "policy_agent"
    /\ \E env \in envs :
          Advance("policy_agent", policy_agent(state, env), edges["policy_agent"], <<>>)

invoke_booking_agent(envs) ==
    /\ status = "running"
    /\ node = "booking_agent"
    /\ \E env \in envs :
          Advance("booking_agent", booking_agent(state, env), edges["booking_agent"], <<>>)

invoke_products_agent(envs) ==
    /\ status = "running"
    /\ node = "products_agent"
    /\ \E env \in envs :
          Advance("products_agent", products_agent(state, env), edges["products_agent"], <<>>)

invoke_response_generator(llms) ==
    /\ status = "running"
    /\ node = "response_generator"
    /\ \E llm \in llms :
          Advance("response_generator", response_generator(state, llm),
                  edges["response_generator"],
                  <<[by |-> "response_generator", outcome |-> llm]>>)

\* return result["final_response"]
run_workflow_return ==
    /\ status = "running"
    /\ node = END
    /\ status' = "returned"
    /\ result' = state.final_response
    /\ UNCHANGED <<node, state, calls, trace, prompts, completions>>
    /\ UNCHANGED others

invoke ==
    \/ invoke_primary_agent(LLM(ClassifierReplies))
    \/ invoke_policy_agent(PolicyEnv)
    \/ invoke_booking_agent(BookingEnv)
    \/ invoke_products_agent(ProductEnv)
    \/ invoke_response_generator(LLM(SynthReplies))
    \/ run_workflow_return

Next ==
    \/ \E user_input \in UserInputs : run_workflow(user_input) /\ UNCHANGED others
    \/ invoke

Spec == Init /\ [][Next]_vars

\* graph.invoke runs synchronously inside run_workflow: a step that can be
\* taken is taken.
FairSpec == Spec /\ WF_vars(invoke)

----------------------------------------------------------------------------
(* The same program when every external call returns: each completion call *)
(* gives a text and the specialist gives its result.                       *)

Returning(llms) == {llm \in llms : llm.kind = "ok"}

ReturningBooking(user_input) ==
    {env \in BookingEnv : ~book_appointment(user_input, env).raised}

invokeReturns ==
    \/ invoke_primary_agent(Returning(LLM(ClassifierReplies)))
    \/ invoke_policy_agent(PolicyEnv)
    \/ invoke_booking_agent(ReturningBooking(state.input))
    \/ invoke_products_agent(ProductEnv)
    \/ invoke_response_generator(Returning(LLM(SynthReplies)))
    \/ run_workflow_return

NextReturns ==
    \/ \E user_input \in UserInputs : run_workflow(user_input) /\ UNCHANGED others
    \/ invokeReturns

FairSpecReturns == Init /\ [][NextReturns]_vars /\ WF_vars(invokeReturns)

----------------------------------------------------------------------------
(* The specialists taken alone: a node function or book_appointment applied *)
(* to a drawn input and a drawn outcome of every external call it makes.    *)

allvars == <<vars, others>>

Drawn(fn, envs) ==
    {[fn |-> fn, user_input |-> u, env |-> e, done |-> FALSE] :
        u \in UserInputs, e \in envs}

Applied(t, out) ==
    [fn |-> t.fn, user_input |-> t.user_input, env |-> t.env, done |-> TRUE, out |-> out]

\* The outcomes in which the model wrote an empty preferred_time
BookingEnvEmptyTime ==
    {[env EXCEPT !.details.preferred_time = ""] :
        env \in {e \in BookingEnv : e.details.kind = "dict" /\ e.details.preferred_time = None}}

InitSpecialists ==
    /\ InitRun
    /\ trial \in Drawn("policy_agent", PolicyEnv) \cup Drawn("products_agent", ProductEnv)
                   \cup Drawn("book_appointment", BookingEnv \cup BookingEnvEmptyTime)
    /\ loop = NoLoop
    /\ requests = <<>>
    /\ heap = <<>>
    /\ stub = NoStub

apply_policy_agent ==
    /\ trial.fn = "policy_agent" /\ ~trial.done
    /\ trial' = Applied(trial, policy_agent(GraphState(trial.user_input), trial.env))
    /\ UNCHANGED <<vars, loop, requests, heap, stub>>

apply_products_agent ==
    /\ trial.fn = "products_agent" /\ ~trial.done
    /\ trial' = Applied(trial, products_agent(GraphState(trial.user_input), trial.env))
    /\ UNCHANGED <<vars, loop, requests, heap, stub>>

apply_book_appointment ==
    /\ trial.fn = "book_appointment" /\ ~trial.done
    /\ trial' = Applied(trial, book_appointment_steps(trial.user_input, trial.env))
    /\ UNCHANGED <<vars, loop, requests, heap, stub>>

NextSpecialists ==
    \/ apply_policy_agent
    \/ apply_products_agent
    \/ apply_book_appointment

SpecSpecialists == InitSpecialists /\ [][NextSpecialists]_allvars

----------------------------------------------------------------------------
(* products_agent.py: ProductSearchAgent.search_products on a drawn query   *)
(* and a drawn catalog.  Here a text is the sequence of its characters.     *)

MaxQueryLen == 3

MaxRows == 6

\* str.lower() on the letters that occur
Lowercase ==
    [A |-> "a", B |-> "b", E |-> "e", I |-> "i", Q |-> "q", T |-> "t", U |-> "u", X |-> "x"]

lower(t) == [i \in DOMAIN t |-> IF t[i] \in DOMAIN Lowercase THEN Lowercase[t[i]] ELSE t[i]]

\* str.split(): the maximal runs of characters that are not whitespace
RECURSIVE split(_)
split(t) ==
    LET rest == lstrip(t)
    IN IF rest = <<>> THEN <<>>
       ELSE LET ends == {i \in DOMAIN rest : rest[i] = WS} \cup {Len(rest) + 1}
                n == CHOOSE i \in ends : \A j \in ends : i <= j
            IN <<SubSeq(rest, 1, n - 1)>> \o split(SubSeq(rest, n, Len(rest)))

\* pandas Series.str.contains(pat, na=False): regex=True is its default, so
\* pat is compiled as a regular expression.  Of the pattern syntax: "."
\* stands for any character, "(" without ")" does not compile (re.error),
\* every other character of the alphabet stands for itself.
re_compiles(pat) == \A i \in DOMAIN pat : pat[i] # "("

re_match_at(pat, text, k) ==
    /\ k + Len(pat) - 1 <= Len(text)
    /\ \A i \in DOMAIN pat : pat[i] = "." \/ pat[i] = text[k + i - 1]

re_search(pat, text) == \E k \in 1..(Len(text) + 1) : re_match_at(pat, text, k)

\* A cell of the catalog: a text, or NaN (an empty CSV field)
Cell(t) == [na |-> FALSE, text |-> t]

NaN == [na |-> TRUE, text |-> <<>>]

str_lower_contains(cell, pat) == ~cell.na /\ re_search(pat, lower(cell.text))

\* results.head(5)
HeadRows == 5

head(q, n) == SubSeq(q, 1, IF Len(q) < n THEN Len(q) ELSE n)

\* products_df.index: the rows are returned by their index in the catalog,
\* in catalog order
RowIndex(products_df) == [i \in 1..Len(products_df) |-> i]

RECURSIVE first_word_with_rows(_, _)
first_word_with_rows(query_words, products_df) ==
    IF query_words = <<>> THEN <<>>
    ELSE LET word == Head(query_words)
             word_mask(i) ==
                 \/ str_lower_contains(products_df[i].Category, word)
                 \/ str_lower_contains(products_df[i].Subcategory, word)
                 \/ str_lower_contains(products_df[i].ProductName, word)
                 \/ str_lower_contains(products_df[i].Brand, word)
             results == SelectSeq(RowIndex(products_df), word_mask)
         IN IF Len(results) > 0 \/ Len(query_words) = 1
            THEN results
            ELSE first_word_with_rows(Tail(query_words), products_df)

ProductSearchAgent_search_products(raw_query, products_df) ==
    LET query == lower(raw_query)
    IN IF ~re_compiles(query)
       THEN [raised |-> TRUE, rows |-> <<>>]
       ELSE LET combined_mask(i) ==
                    \/ str_lower_contains(products_df[i].Category, query)
                    \/ str_lower_contains(products_df[i].Subcategory, query)
                    \/ str_lower_contains(products_df[i].ProductName, query)
                    \/ str_lower_contains(products_df[i].Brand, query)
                    \/ str_lower_contains(products_df[i].Description, query)
                results == SelectSeq(RowIndex(products_df), combined_mask)
            IN [raised |-> FALSE,
                rows |-> head(IF Len(results) = 0
                              THEN first_word_with_rows(split(query), products_df)
                              ELSE results, HeadRows)]

QueryAlphabet == {"a", "B", ".", WS, "("}

Queries == SeqsUpTo(QueryAlphabet, MaxQueryLen)

CatalogRows ==
    {[Category |-> Cell(<<"A", "b">>), Subcategory |-> NaN, ProductName |-> Cell(<<"b">>),
      Brand |-> Cell(<<"b">>), Description |-> Cell(<<"a", WS, "b">>)],
     [Category |-> Cell(<<"b">>), Subcategory |-> Cell(<<"b">>),
      ProductName |-> Cell(<<"b", "b">>), Brand |-> NaN, Description |-> Cell(<<"b", "a">>)]}

Catalogs == SeqsUpTo(CatalogRows, MaxRows)

InitSearch ==
    /\ InitRun
    /\ trial \in {[fn |-> "search_products", query |-> q, products_df |-> df, done |-> FALSE] :
                     q \in Queries, df \in Catalogs}
    /\ loop = NoLoop
    /\ requests = <<>>
    /\ heap = <<>>
    /\ stub = NoStub

apply_search_products ==
    /\ trial.fn = "search_products" /\ ~trial.done
    /\ trial' = [fn |-> trial.fn, query |-> trial.query, products_df |-> trial.products_df,
                 done |-> TRUE,
                 out |-> ProductSearchAgent_search_products(trial.query, trial.products_df)]
    /\ UNCHANGED <<vars, loop, requests, heap, stub>>

NextSearch == apply_search_products

SpecSearch == InitSearch /\ [][NextSearch]_allvars

----------------------------------------------------------------------------
(* agents.py: the interactive loop of __main__.  The texts read are         *)
(* sequences of characters.                                                 *)

MaxInputs == 2

\* ["quit", "exit", "q"]
ExitKeywords == {<<"q", "u", "i", "t">>, <<"e", "x", "i", "t">>, <<"q">>}

\* user_input.lower() in ["quit", "exit", "q"]
IsExit(user_input) == lower(user_input) \in ExitKeywords

LoopInputs ==
    {<<"q">>, <<"Q", "u", "i", "t">>, <<"E", "X", "I", "T">>, <<"q", WS>>, <<"h", "i">>}

InitLoop ==
    /\ InitRun
    /\ loop = [pc |-> "input", reads |-> <<>>, ran |-> <<>>]
    /\ trial = NoTrial
    /\ requests = <<>>
    /\ heap = <<>>
    /\ stub = NoStub

\* input(">> ") gives an exit keyword: print("Goodbye!"); break
loop_break(user_input) ==
    /\ loop.pc = "input"
    /\ Len(loop.reads) < MaxInputs
    /\ IsExit(user_input)
    /\ loop' = [loop EXCEPT !.pc = "exited", !.reads = Append(@, user_input)]
    /\ UNCHANGED <<vars, trial, requests, heap, stub>>

\* input(">> ") gives another text: run_workflow(user_input) is entered
loop_run_workflow(user_input) ==
    /\ loop.pc = "input"
    /\ Len(loop.reads) < MaxInputs
    /\ ~IsExit(user_input)
    /\ run_workflow(user_input)
    /\ loop' = [loop EXCEPT !.pc = "run_workflow", !.reads = Append(@, user_input),
                            !.ran = Append(@, user_input)]
    /\ UNCHANGED <<trial, requests, heap, stub>>

\* run_workflow returned: print(f"Assistant: {response}") and the next turn
loop_print ==
    /\ loop.pc = "run_workflow"
    /\ status = "returned"
    /\ loop' = [loop EXCEPT !.pc = "input"]
    /\ UNCHANGED <<vars, trial, requests, heap, stub>>

\* run_workflow raised: nothing in the loop catches it, the program ends
loop_traceback ==
    /\ loop.pc = "run_workflow"
    /\ status = "raised"
    /\ loop' = [loop EXCEPT !.pc = "crashed"]
    /\ UNCHANGED <<vars, trial, requests, heap, stub>>

LoopSynthReplies == {<<"Hello", "|", "null">>}

NextLoop ==
    \/ \E user_input \in LoopInputs : loop_break(user_input)
    \/ \E user_input \in LoopInputs : loop_run_workflow(user_input)
    \/ invoke_primary_agent(LLM(AgentAction))
    \/ invoke_policy_agent(PolicyEnv)
    \/ invoke_booking_agent(BookingEnv)
    \/ invoke_products_agent(ProductEnv)
    \/ invoke_response_generator(LLM(LoopSynthReplies))
    \/ run_workflow_return
    \/ loop_print
    \/ loop_traceback

SpecLoop == InitLoop /\ [][NextLoop]_allvars

----------------------------------------------------------------------------
(* agents.py: several run_workflow calls in progress side by side (one per  *)
(* thread of a caller), their node steps interleaved.  The dict objects the *)
(* calls create live in a heap and a GraphState refers to its context dict  *)
(* by identity, so that two states sharing one dict can be told from two    *)
(* states with equal dicts.  The model and the specialists are              *)
(* deterministic: what they give is a function of what they are asked.      *)

MaxRequests == 3

\* "context": {} evaluated with the dict of the first call used again
FreshRef_first_dict(h) == 1

\* "context": {} evaluates to a dict object no other state refers to
FreshRef(h) == Len(h) + 1

\* the new context starting from what the dict created last holds
Alloc_from_last(h) == Append(h, IF h = <<>> THEN EmptyDict ELSE h[Len(h)])

\* "context": {} creates an empty dict
Alloc(h) == Append(h, EmptyDict)

StubClassifierReplies == {POLICY_QUERY, <<"booking", WS>>, DB_QUERY}

Stubs == [kind : {"stub"}, classify : [UserInputs -> LLM(StubClassifierReplies)]]

StubPolicyEnv(user_input) ==
    [store |-> "ok", found |-> (user_input # <<"hello">>),
     llm |-> [kind |-> "ok", content |-> <<"30-day returns">>]]

StubProductEnv(user_input) ==
    [catalog |-> "ok", empty |-> (user_input = <<"hello">>),
     llm |-> [kind |-> "ok", content |-> <<"P001">>]]

StubBookingEnv(user_input) ==
    [auth |-> "ok",
     intent |-> [kind |-> "dict",
                 action |-> IF user_input = <<"hello">> THEN NoKey ELSE "book",
                 meeting_reference |-> NoKey],
     lookup |-> [date_info |-> "ok", list |-> [kind |-> "ok", items |-> <<>>],
                 match |-> [kind |-> "ok", event_id |-> None]],
     details |-> [kind |-> "dict", complete |-> TRUE, preferred_time |-> None],
     slots |-> <<"09:00">>,
     calendar |-> "ok"]

StubSynth == [kind |-> "ok", content |-> <<"Hello", "|", "null">>]

InitRequests ==
    /\ InitRun
    /\ requests = <<>>
    /\ heap = <<>>
    /\ stub \in Stubs
    /\ trial = NoTrial
    /\ loop = NoLoop

\* run_workflow(user_input) entered by one more caller
request_run_workflow(user_input) ==
    /\ Len(requests) < MaxRequests
    /\ heap' = Alloc(heap)
    /\ requests' = Append(requests,
          [status |-> "running", node |-> edges[START],
           state |-> [GraphState(user_input) EXCEPT !.context = FreshRef(heap)],
           trace |-> <<>>, calls |-> <<>>,
           yield |-> [action |-> <<>>, keys |-> {}, final_response |-> <<>>]])
    /\ UNCHANGED <<vars, trial, loop, stub>>

\* The GraphState of request r with its context dict read from the heap
Loaded(r) == [requests[r].state EXCEPT !.context = heap[@]]

At(r, n) == requests[r].status = "running" /\ requests[r].node = n

\* One step of graph.invoke in request r: node n has run on the state of r
RequestAdvance(r, n, out, nxt) ==
    LET ref == requests[r].state.context
        fault == out.raised \/ nxt = KeyError
    IN /\ heap' = [heap EXCEPT ![ref] = out.state.context]
       /\ requests' = [requests EXCEPT
              ![r].state = [out.state EXCEPT !.context = ref],
              ![r].trace = Append(@, n),
              ![r].calls = @ \o out.calls,
              ![r].status = IF fault THEN "raised" ELSE @,
              ![r].node = IF fault THEN @ ELSE nxt]
       /\ UNCHANGED <<vars, trial, loop, stub>>

request_primary_agent(r) ==
    /\ At(r, "primary_agent")
    /\ LET out == primary_agent(Loaded(r), stub.classify[requests[r].state.input])
       IN RequestAdvance(r, "primary_agent", out, conditional_edges(out.state))

request_policy_agent(r) ==
    /\ At(r, "policy_agent")
    /\ RequestAdvance(r, "policy_agent",
          policy_agent(Loaded(r), StubPolicyEnv(requests[r].state.input)),
          edges["policy_agent"])

request_booking_agent(r) ==
    /\ At(r, "booking_agent")
    /\ RequestAdvance(r, "booking_agent",
          booking_agent(Loaded(r), StubBookingEnv(requests[r].state.input)),
          edges["booking_agent"])

request_products_agent(r) ==
    /\ At(r, "products_agent")
    /\ RequestAdvance(r, "products_agent",
          products_agent(Loaded(r), StubProductEnv(requests[r].state.input)),
          edges["products_agent"])

request_response_generator(r) ==
    /\ At(r, "response_generator")
    /\ RequestAdvance(r, "response_generator",
          response_generator(Loaded(r), StubSynth), edges["response_generator"])

\* graph.invoke returns the state of request r; run_workflow returns
request_return(r) ==
    /\ At(r, END)
    /\ requests' = [requests EXCEPT
          ![r].status = "returned",
          ![r].yield = [action |-> Loaded(r).action, keys |-> DOMAIN Loaded(r).context,
                        final_response |-> Loaded(r).final_response]]
    /\ UNCHANGED <<vars, heap, trial, loop, stub>>

NextRequests ==
    \/ \E user_input \in UserInputs : request_run_workflow(user_input)
    \/ \E r \in DOMAIN requests : request_primary_agent(r)
    \/ \E r \in DOMAIN requests : request_policy_agent(r)
    \/ \E r \in DOMAIN requests : request_booking_agent(r)
    \/ \E r \in DOMAIN requests : request_products_agent(r)
    \/ \E r \in DOMAIN requests : request_response_generator(r)
    \/ \E r \in DOMAIN requests : request_return(r)

SpecRequests == InitRequests /\ [][NextRequests]_allvars

----------------------------------------------------------------------------
(* booking_agent.py: BookingAgent.find_available_slots, one pass of its     *)
(* while loop per step, on a drawn duration and a drawn free/busy answer.   *)
(* A time is the number of minutes from 00:00 of the preferred date; the    *)
(* zone is Asia/Kolkata, which has no clock change.                         *)

MaxBusy == 2

HM(h, m) == h * 60 + m

time_min == HM(9, 0)

time_max == HM(17, 0)

\* datetime.strftime('%H:%M'): the hour and the minute of the time, its day
\* is not written
strftime_HM(t) == t % (24 * 60)

\* slot_busy after the for loop over busy_times
slot_busy(slot_start, slot_end, busy_times) ==
    \E i \in DOMAIN busy_times :
        slot_start < busy_times[i].end /\ slot_end > busy_times[i].start

Durations == {-450, -30, 0, 30, 45, 60, 480, 510}

BusyInstants == {HM(9, 0), HM(9, 45), HM(10, 0), HM(11, 0)}

BusyIntervals == {b \in [start : BusyInstants, end : BusyInstants] : b.start < b.end}

BusyLists == SeqsUpTo(BusyIntervals, MaxBusy)

InitSlots ==
    /\ InitRun
    /\ trial \in {[fn |-> "find_available_slots", duration_minutes |-> d, freebusy |-> q,
                   busy_times |-> b, pc |-> "try", current_time |-> time_min,
                   free_slots |-> <<>>, out |-> <<>>] :
                     d \in Durations, q \in {"ok", "raise"}, b \in BusyLists}
    /\ loop = NoLoop
    /\ requests = <<>>
    /\ heap = <<>>
    /\ stub = NoStub

\* The statements of the try block before the loop: a failure of one of them
\* (the date does not parse, the free/busy query fails) is caught and gives []
find_available_slots_query ==
    /\ trial.fn = "find_available_slots" /\ trial.pc = "try"
    /\ trial' = IF trial.freebusy = "raise"
                THEN [trial EXCEPT !.pc = "returned", !.out = <<>>]
                ELSE [trial EXCEPT !.pc = "while", !.current_time = time_min,
                                   !.free_slots = <<>>]
    /\ UNCHANGED <<vars, loop, requests, heap, stub>>

\* One pass of the while loop
find_available_slots_pass ==
    /\ trial.fn = "find_available_slots" /\ trial.pc = "while"
    /\ trial.current_time + trial.duration_minutes <= time_max
    /\ LET slot_start == trial.current_time
           slot_end == trial.current_time + trial.duration_minutes
       IN trial' = [trial EXCEPT
                       !.free_slots =
                           IF ~slot_busy(slot_start, slot_end, trial.busy_times)
                           THEN Append(@, [start |-> strftime_HM(slot_start),
                                           end |-> strftime_HM(slot_end)])
                           ELSE @,
                       !.current_time = @ + 30]
    /\ UNCHANGED <<vars, loop, requests, heap, stub>>

\* The loop condition is false: return free_slots
find_available_slots_return ==
    /\ trial.fn = "find_available_slots" /\ trial.pc = "while"
    /\ ~(trial.current_time + trial.duration_minutes <= time_max)
    /\ trial' = [trial EXCEPT !.pc = "returned", !.out = trial.free_slots]
    /\ UNCHANGED <<vars, loop, requests, heap, stub>>

NextSlots ==
    \/ find_available_slots_query
    \/ find_available_slots_pass
    \/ find_available_slots_return

SpecSlots == InitSlots /\ [][NextSlots]_allvars

\* The interpreter keeps running the call until it returns
FairSpecSlots == SpecSlots /\ WF_allvars(NextSlots)

----------------------------------------------------------------------------
(* booking_agent.py: the update path of book_appointment after find_event   *)
(* gave an event: extract_meeting_details, the filter of the null values    *)
(* and BookingAgent.update_event, on a drawn request and a drawn event.     *)
(* A JSON value is null or a value; a dict is a function of its keys.       *)

JNull == [null |-> TRUE]

J(v) == [null |-> FALSE, v |-> v]

\* dict.get(key): None when the key is missing
Get(dict, key) == IF key \in DOMAIN dict THEN dict[key] ELSE JNull

\* The truth value of a str, and of a list
TruthyStr(j) == ~j.null /\ j.v # ""

TruthyList(j) == ~j.null /\ j.v # <<>>

DetailKeys ==
    {"title", "duration_minutes", "preferred_date", "preferred_time", "description",
     "participants"}

\* What a request can say of the meeting: for every key nothing (null), an
\* empty value, or a value
RequestDetails ==
    [title : {JNull, J(""), J("Review")},
     duration_minutes : {JNull, J(0), J(60)},
     preferred_date : {JNull, J(""), J("2026-11-12")},
     preferred_time : {JNull, J(""), J("10:00"), J("soon")},
     description : {JNull, J(""), J("agenda")},
     participants : {JNull, J(<<>>), J(<<"new@x.com">>)}]

UpdateInput == "move the standup"

\* The dict of the except branch of extract_meeting_details
DefaultDetails(user_input) ==
    [title |-> J("Meeting"),
     duration_minutes |-> J(30),
     preferred_date |-> J("tomorrow"),
     preferred_time |-> J("09:00"),
     description |-> J(user_input),
     participants |-> J(<<>>)]

\* extract_meeting_details: the reply of the model says what the request
\* says, and json.loads decodes it or raises JSONDecodeError
BookingAgent_extract_meeting_details(user_input, request, decodes) ==
    IF decodes THEN request ELSE DefaultDetails(user_input)

\* {k: v for k, v in updated_details.items() if v is not None}
filter_not_None(details) ==
    [k \in {key \in DOMAIN details : ~details[key].null} |-> details[k]]

\* dateutil parser.parse(...).time() on the times that occur; it raises on a
\* text that is no time
TimesOfDay == [t \in {"09:00", "10:00"} |-> IF t = "09:00" THEN HM(9, 0) ELSE HM(10, 0)]

\* The event events().get gives
StoredEvents ==
    {[summary |-> "Standup", description |-> "daily", attendees |-> <<[email |-> "old@x.com"]>>,
      start |-> [date |-> "2026-11-05", minutes |-> HM(9, 30)],
      end |-> [date |-> "2026-11-05", minutes |-> HM(10, 30)]],
     [summary |-> "Standup", description |-> "", attendees |-> <<>>,
      start |-> [date |-> "2026-11-12", minutes |-> HM(10, 0)],
      end |-> [date |-> "2026-11-12", minutes |-> HM(10, 30)]]}

emails(participants) == [i \in DOMAIN participants |-> [email |-> participants[i]]]

\* update_event: the body it builds from the stored event, the requests it
\* sends, and whether its except caught an exception
BookingAgent_update_event_body(event, updated_details, calendar) ==
    LET title == Get(updated_details, "title")
        description == Get(updated_details, "description")
        participants == Get(updated_details, "participants")
        preferred_date == Get(updated_details, "preferred_date")
        preferred_time == Get(updated_details, "preferred_time")
        duration == IF "duration_minutes" \in DOMAIN updated_details
                    THEN updated_details["duration_minutes"].v ELSE 30
        basic == [event EXCEPT
                     !.summary = IF TruthyStr(title) THEN title.v ELSE @,
                     !.description = IF TruthyStr(description) THEN description.v ELSE @,
                     !.attendees = IF TruthyList(participants) THEN emails(participants.v)
                                   ELSE @]
        timed == TruthyStr(preferred_date) /\ TruthyStr(preferred_time)
    IN IF calendar = "raise"
       THEN [caught |-> TRUE, api |-> <<[op |-> "get"]>>]
       ELSE IF timed /\ preferred_time.v \notin DOMAIN TimesOfDay
       THEN [caught |-> TRUE, api |-> <<[op |-> "get"]>>]
       ELSE [caught |-> FALSE,
             api |-> <<[op |-> "get"],
                       [op |-> "update",
                        body |-> IF timed
                                 THEN [basic EXCEPT
                                          !.start = [date |-> preferred_date.v,
                                                     minutes |-> TimesOfDay[preferred_time.v]],
                                          !.end = [date |-> preferred_date.v,
                                                   minutes |-> TimesOfDay[preferred_time.v]
                                                                   + duration]]
                                 ELSE basic]>>]

InitUpdate ==
    /\ InitRun
    /\ trial \in {[fn |-> "update", request |-> r, decodes |-> d, event |-> ev,
                   calendar |-> c, done |-> FALSE] :
                     r \in RequestDetails, d \in BOOLEAN, ev \in StoredEvents,
                     c \in {"ok", "raise"}}
    /\ loop = NoLoop
    /\ requests = <<>>
    /\ heap = <<>>
    /\ stub = NoStub

\* book_appointment, action "update", from extract_meeting_details on
apply_update ==
    /\ trial.fn = "update" /\ ~trial.done
    /\ LET extracted == BookingAgent_extract_meeting_details(UpdateInput, trial.request,
                                                              trial.decodes)
           updated_details == filter_not_None(extracted)
       IN trial' = [fn |-> trial.fn, request |-> trial.request, decodes |-> trial.decodes,
                    event |-> trial.event, calendar |-> trial.calendar, done |-> TRUE,
                    extracted |-> extracted,
                    updated_details |-> updated_details,
                    out |-> BookingAgent_update_event_body(trial.event, updated_details,
                                                           trial.calendar)]
    /\ UNCHANGED <<vars, loop, requests, heap, stub>>

NextUpdate == apply_update

SpecUpdate == InitUpdate /\ [][NextUpdate]_allvars

----------------------------------------------------------------------------
(* Properties *)

Last(q) == q[Len(q)]

PRODUCT_QUERY == <<"product_query">>

\* The four labels as the specification names them
SpecLabels == {POLICY_QUERY, BOOKING, PRODUCT_QUERY, FINAL_RESPONSE}

\* primary_agent has run and set the action
Classified == trace # <<>> /\ node # "primary_agent"

\* The stage the claims tie to an action, the product label being `product`
StageOf(action, product) ==
    IF action = <<"policy_query">> THEN "policy_agent"
    ELSE IF action = <<"booking">> THEN "booking_agent"
    ELSE IF action = product THEN "products_agent"
    ELSE "response_generator"

SpecialistOf(stage) ==
    IF stage = "policy_agent" THEN "search_docs"
    ELSE IF stage = "booking_agent" THEN "book_appointment"
    ELSE IF stage = "products_agent" THEN "search_products"
    ELSE "none"

KeyOf(stage) ==
    IF stage = "policy_agent" THEN "policy_info"
    ELSE IF stage = "booking_agent" THEN "booking_info"
    ELSE IF stage = "products_agent" THEN "products_info"
    ELSE "none"

\* C1: when every external call returns, a run whose classified action is one
\* of the four labels (policy_query, booking, product_query, final_response)
\* eventually returns from run_workflow, response_generator having been the
\* last stage to run and its final_response being the value returned.
C1_ReachesSynthesisThenDone ==
    (Classified /\ status = "running" /\ state.action \in SpecLabels)
        ~> (/\ status = "returned"
            /\ state.action \in SpecLabels
            /\ Last(trace) = "response_generator"
            /\ result = state.final_response)

C1_Witness ==
    /\ status = "returned"
    /\ state.action = PRODUCT_QUERY
    /\ Last(trace) = "response_generator"

\* The routing of a classified run, the product label being `product`: the
\* stage after primary_agent is the one tied to the action, the only
\* specialist called is that stage's, and when the action is tied to no
\* specialist none is called and the synthesizer serialises an empty context.
RoutedBy(product) ==
    Classified =>
        LET stage == StageOf(state.action, product)
        IN /\ Len(trace) = 1 => node = stage
           /\ Len(trace) >= 2 => trace[2] = stage
           /\ \A i \in DOMAIN calls : calls[i].callee = SpecialistOf(stage)
           /\ stage # "response_generator" /\ Len(trace) >= 2 => Len(calls) = 1
           /\ stage = "response_generator" =>
                 /\ calls = <<>>
                 /\ \A i \in DOMAIN prompts : DOMAIN prompts[i].context = {}

\* C2 as stated: a specialist stage runs iff the action is policy_query,
\* booking or product_query; for every other action none runs and the
\* context is empty when the synthesizer runs.
C2_Original == RoutedBy(PRODUCT_QUERY)

\* C2 as amended: a specialist stage runs iff the action is policy_query,
\* booking or db_query (the product label of AgentAction); for final_response
\* and every other action, product_query included, no specialist is called
\* and the context is empty when the synthesizer runs.
C2_SpecialistIffLabel == RoutedBy(<<"db_query">>)

C2_Witness ==
    /\ status = "returned"
    /\ state.action = <<"db_query">>
    /\ trace = <<"primary_agent", "products_agent", "response_generator">>
    /\ Len(calls) = 1 /\ calls[1].callee = "search_products"

\* C3: in every state of a request the context has at most one key, and a key
\* it has is the one tied to the routed action: policy_info for policy_query,
\* booking_info for booking, products_info for the product action db_query.
C3_AtMostOneKeyOfAction ==
    /\ Cardinality(DOMAIN state.context) <= 1
    /\ \A k \in DOMAIN state.context :
          k = KeyOf(StageOf(state.action, <<"db_query">>))

C3_Witness ==
    /\ DOMAIN state.context = {"products_info"}
    /\ state.action = <<"db_query">>
    /\ node = "response_generator"

\* C4: for the action of every reachable GraphState (the empty string before
\* and after classification, the labels, every other reply)
\* route_to_specialist gives one of the four declared targets, and
\* response_generator unless the action is one of the three specialist labels.
C4_RouteTotal ==
    /\ route_to_specialist(state) \in
          {"policy_agent", "booking_agent", "products_agent", "response_generator"}
    /\ route_to_specialist(state) \in DOMAIN path_map
    /\ state.action \notin {<<"policy_query">>, <<"booking">>, <<"db_query">>}
          => route_to_specialist(state) = "response_generator"
    /\ Classified /\ Len(trace) = 1 => node = path_map[route_to_specialist(state)]

C4_Witness ==
    /\ Classified
    /\ Len(trace) = 1
    /\ state.action = <<"booking", "booking">>
    /\ node = "response_generator"

\* The completion primary_agent received, once it has asked
ClassifierAnswered == completions # <<>> /\ completions[1].outcome.kind = "ok"

ClassifierReply == completions[1].outcome.content

\* C5 as stated: when the trimmed reply of the model is none of the four
\* labels, the action recorded in the state is final_response.
C5_Original ==
    ClassifierAnswered /\ strip(ClassifierReply) \notin SpecLabels
        => Classified /\ state.action = FINAL_RESPONSE

\* C5 as amended: when the trimmed reply is none of the labels of AgentAction
\* (policy_query, booking, db_query, final_response), primary_agent does not
\* raise and records the trimmed reply itself as the action; the router sends
\* that action to response_generator, as it does final_response, and no
\* specialist is called.
C5_UnrecognisedReplyKept ==
    ClassifierAnswered /\ strip(ClassifierReply) \notin AgentAction
        => /\ Classified
           /\ state.action = strip(ClassifierReply)
           /\ Len(trace) = 1 => status = "running" /\ node = "response_generator"
           /\ Len(trace) >= 2 => trace[2] = "response_generator"
           /\ calls = <<>>

C5_Witness ==
    /\ ClassifierAnswered
    /\ ClassifierReply = <<WS, "product_query">>
    /\ state.action = PRODUCT_QUERY
    /\ status = "running"
    /\ node = "response_generator"

\* C6 as stated: when the completion call of the classifier fails, the run is
\* not aborted and the action falls back to final_response.
C6_Claim ==
    completions # <<>> /\ completions[1].by = "primary_agent"
                       /\ completions[1].outcome.kind = "raise"
        => status # "raised" /\ state.action = FINAL_RESPONSE

\* C7 as stated: when the specialist the router selected raises, the run
\* still proceeds to the synthesis stage.
C7_Claim ==
    \A i \in DOMAIN calls :
        calls[i].outcome.raised
            => status # "raised" /\ node \in {"response_generator", END}

\* C8 as stated: when the completion call of the synthesizer fails, no fault
\* leaves run_workflow and the caller receives a non-empty string.
C8_Claim ==
    completions # <<>> /\ Last(completions).by = "response_generator"
                       /\ Last(completions).outcome.kind = "raise"
        => /\ status # "raised"
           /\ status = "returned" => result # <<>>

KeyOfCallee(callee) ==
    IF callee = "search_docs" THEN "policy_info"
    ELSE IF callee = "book_appointment" THEN "booking_info"
    ELSE "products_info"

ErrorTexts ==
    {<<"Error retrieving information from company policies.">>,
     <<"Error generating response from context.">>,
     <<"Error retrieving product information.">>,
     <<"Error generating response about products.">>}

IsErrorPayload(v) ==
    IF v.type = "dict" THEN v.status = "error" ELSE v.text \in ErrorTexts

\* C9: an error payload a specialist returned (a booking payload of status
\* error, an error string of the policy or product specialist) is in the
\* context under the key of that specialist, the stage that follows is
\* response_generator, and the context it serialises holds the payload.
C9_ErrorPayloadKept ==
    \A i \in DOMAIN calls :
        LET c == calls[i]
            key == KeyOfCallee(c.callee)
        IN ~c.outcome.raised /\ IsErrorPayload(c.outcome.value)
            => /\ key \in DOMAIN state.context
               /\ state.context[key] = c.outcome.value
               /\ Len(trace) = 2 => status = "running" /\ node = "response_generator"
               /\ Len(trace) >= 3 => trace[3] = "response_generator"
               /\ \A j \in DOMAIN prompts :
                     /\ key \in DOMAIN prompts[j].context
                     /\ prompts[j].context[key] = json_value(c.outcome.value)

C9_Witness ==
    /\ Len(calls) = 1
    /\ calls[1].callee = "book_appointment"
    /\ ~calls[1].outcome.raised
    /\ calls[1].outcome.value.action_taken = "Slot search failed"
    /\ Len(prompts) = 1
    /\ prompts[1].context["booking_info"].members.status = "error"
    /\ status = "returned"

\* json.loads of what json_value wrote
json_loads(j) ==
    IF j.json = "string"
    THEN [type |-> "str", text |-> j.chars]
    ELSE [f \in (DOMAIN j.members) \cup {"type"} |->
             IF f = "type" THEN "dict" ELSE j.members[f]]

\* C10: the specialist is called with the input of the request; what it
\* returns is the value under its key of the context, and the text the
\* synthesizer serialises for that key decodes to the value returned.
C10_InputInPayloadThrough ==
    \A i \in DOMAIN calls :
        LET c == calls[i]
            key == KeyOfCallee(c.callee)
        IN /\ c.arg = state.input
           /\ ~c.outcome.raised
                => /\ key \in DOMAIN state.context
                   /\ state.context[key] = c.outcome.value
                   /\ \A j \in DOMAIN prompts :
                         /\ prompts[j].input = state.input
                         /\ key \in DOMAIN prompts[j].context
                         /\ json_loads(prompts[j].context[key]) = c.outcome.value

C10_Witness ==
    /\ status = "returned"
    /\ Len(calls) = 1
    /\ calls[1].callee = "search_docs"
    /\ calls[1].arg = <<"hello">>
    /\ calls[1].outcome.value = Str(<<"30-day returns">>)
    /\ Len(prompts) = 1
    /\ json_loads(prompts[1].context["policy_info"]) = Str(<<"30-day returns">>)

----------------------------------------------------------------------------
(* The suffix of a final response *)

ProductIds == {"P001"}

HasPipe(t) == \E i \in DOMAIN t : t[i] = "|"

\* The text after the last "|" of t
AfterLastPipe(t) ==
    LET last == CHOOSE i \in DOMAIN t : t[i] = "|" /\ \A j \in DOMAIN t : t[j] = "|" => j <= i
    IN SubSeq(t, last + 1, Len(t))

\* identifiers separated by commas: id , id , ... , id
IsIdList(r) ==
    /\ Len(r) % 2 = 1
    /\ \A i \in DOMAIN r : IF i % 2 = 1 THEN r[i] \in ProductIds ELSE r[i] = ","

ContextHasIds ==
    \E k \in DOMAIN state.context :
        /\ state.context[k].type = "str"
        /\ \E i \in DOMAIN state.context[k].text : state.context[k].text[i] \in ProductIds

\* C11 as stated: every final_response run_workflow returns has a "|", and
\* what follows its last "|" is null when the context holds no product
\* identifier and a comma-separated list of identifiers when it holds some.
C11_Claim ==
    status = "returned"
        => /\ HasPipe(result)
           /\ IF ContextHasIds
              THEN IsIdList(AfterLastPipe(result))
              ELSE AfterLastPipe(result) = <<"null">>

----------------------------------------------------------------------------
(* The order of the stages *)

Specialists == {"policy_agent", "booking_agent", "products_agent"}

Count(q, x) == Cardinality({i \in DOMAIN q : q[i] = x})

\* The stages run so far are in the order classify, at most one specialist,
\* synthesize, and none has run twice.
InStageOrder(t) ==
    /\ \A i, j \in DOMAIN t : i # j => t[i] # t[j]
    /\ \A i \in DOMAIN t :
          /\ t[i] = "primary_agent" => i = 1
          /\ t[i] \in Specialists => i = 2
          /\ t[i] = "response_generator" => i = Len(t) /\ i \in {2, 3}
    /\ Len(t) >= 1 => t[1] = "primary_agent"
    /\ Len(t) = 3 => t[2] \in Specialists

\* C12 as stated: the stages of a request run in the order classify, at most
\* one specialist, synthesize, Done, none of them twice; in a request that
\* has ended the classifier has run exactly once and the synthesizer exactly
\* once, as the last stage.
C12_Claim ==
    /\ InStageOrder(trace)
    /\ Cardinality({i \in DOMAIN completions : completions[i].by = "primary_agent"}) <= 1
    /\ status \in {"returned", "raised"} =>
          /\ Count(trace, "primary_agent") = 1
          /\ Count(trace, "response_generator") = 1
          /\ Last(trace) = "response_generator"

\* The part of C12 that holds of every run, ended by a fault or not: the
\* order, no stage twice, one completion asked by the classifier, and a
\* run that returns has run the classifier and the synthesizer once each.
C12_OrderOnly ==
    /\ InStageOrder(trace)
    /\ Cardinality({i \in DOMAIN completions : completions[i].by = "primary_agent"}) <= 1
    /\ status = "returned" =>
          /\ Count(trace, "primary_agent") = 1
          /\ Count(trace, "response_generator") = 1
          /\ Last(trace) = "response_generator"

----------------------------------------------------------------------------
(* What a stage changes *)

\* C13: in a step of a running request, primary_agent changes at most the
\* action, a specialist node at most its own key of the context,
\* response_generator at most final_response, and the return nothing; the
\* input never changes and the action does not change after primary_agent.
C13_StageChangesOwnPart ==
    [][status = "running" =>
         /\ state'.input = state.input
         /\ node # "primary_agent" => state'.action = state.action
         /\ node = "primary_agent" => [state' EXCEPT !.action = state.action] = state
         /\ node \in Specialists =>
               /\ [state' EXCEPT !.context = state.context] = state
               /\ DOMAIN state'.context \subseteq DOMAIN state.context \cup {KeyOf(node)}
               /\ \A k \in DOMAIN state.context :
                     k # KeyOf(node) => k \in DOMAIN state'.context
                                        /\ state'.context[k] = state.context[k]
         /\ node = "response_generator" =>
               [state' EXCEPT !.final_response = state.final_response] = state
         /\ node = END => state' = state
      ]_vars

C13_Witness ==
    /\ status = "returned"
    /\ state.action = BOOKING
    /\ DOMAIN state.context = {"booking_info"}
    /\ state.final_response = <<"Hello", "|">>
    /\ state.response = <<>>

----------------------------------------------------------------------------
(* The specialists *)

BookedWith(t) == t.fn = "book_appointment" /\ t.done

\* C16: every payload book_appointment returns, on the cancel, update and
\* book paths, with the event found or not, a slot free or not, the calendar
\* call succeeding or failing, has a status that is success or error, an
\* action_type and action_details.
C16_PayloadCarriesStatus ==
    BookedWith(trial) /\ ~trial.out.raised
        => LET payload == trial.out.value
           IN /\ payload.type = "dict"
              /\ {"status", "action_type", "action_details"} \subseteq DOMAIN payload
              /\ payload.status \in {"success", "error"}
              /\ payload.action_type = trial.env.intent.action

C16_Witness ==
    /\ BookedWith(trial)
    /\ ~trial.out.raised
    /\ trial.env.intent.action = "update"
    /\ trial.env.calendar = "raise"
    /\ trial.out.value.action_taken = "Failed to update event"
    /\ trial.out.value.status = "error"

SearchedWith(t) == t.fn \in {"policy_agent", "products_agent"} /\ t.done

\* C19: policy_agent and products_agent never raise; a failure of the store
\* or catalog or of the search gives the fixed retrieval error string, a
\* failure of the model call the fixed generation error string, an empty
\* search result the fixed no-results string; in every case the key of the
\* specialist is in the context with a string.
C19_SearchSpecialistsNeverRaise ==
    SearchedWith(trial)
        => LET env == trial.env
               out == trial.out
               key == KeyOf(trial.fn)
               policy == trial.fn = "policy_agent"
           IN /\ ~out.raised
              /\ DOMAIN out.state.context = {key}
              /\ out.state.context[key].type = "str"
              /\ LET text == out.state.context[key].text
                 IN IF policy
                    THEN /\ env.store = "raise" =>
                              text = <<"Error retrieving information from company policies.">>
                         /\ env.store = "ok" /\ ~env.found =>
                              text = <<"No relevant information found.">>
                         /\ env.store = "ok" /\ env.found /\ env.llm.kind = "raise" =>
                              text = <<"Error generating response from context.">>
                    ELSE /\ env.catalog = "raise" =>
                              text = <<"Error retrieving product information.">>
                         /\ env.catalog = "ok" /\ env.empty =>
                              text = <<"No matching products found.">>
                         /\ env.catalog = "ok" /\ ~env.empty /\ env.llm.kind = "raise" =>
                              text = <<"Error generating response about products.">>

C19_Witness ==
    /\ SearchedWith(trial)
    /\ trial.fn = "products_agent"
    /\ trial.env.catalog = "raise"
    /\ ~trial.out.raised
    /\ trial.out.state.context["products_info"] =
          Str(<<"Error retrieving product information.">>)

\* The lookup gives no event: a call inside it fails, the window holds no
\* event, or the model names no id or an id that is not in the window
NoEventFound(lookup) ==
    \/ lookup.date_info = "raise"
    \/ lookup.list.kind = "raise"
    \/ lookup.list.items = <<>>
    \/ lookup.match.kind = "raise"
    \/ \A i \in DOMAIN lookup.list.items : lookup.list.items[i] # lookup.match.event_id

\* C20: on the cancel and update paths, when the lookup gives no event the
\* result is the error payload with action_taken "Meeting search failed" and
\* no request went to the calendar; every get, update or delete request
\* carries the id of the event the lookup matched in the window.
C20_NoEventNoCalendarWrite ==
    BookedWith(trial)
        => LET env == trial.env
               out == trial.out
           IN /\ env.intent.action \in {"cancel", "update"} /\ NoEventFound(env.lookup)
                    => /\ out.api = <<>>
                       /\ ~out.raised =>
                             /\ out.value.status = "error"
                             /\ out.value.action_taken = "Meeting search failed"
              /\ \A i \in DOMAIN out.api :
                    out.api[i].op \in {"get", "update", "delete"}
                        => /\ ~NoEventFound(env.lookup)
                           /\ out.api[i].eventId = env.lookup.match.event_id

C20_Witness ==
    /\ BookedWith(trial)
    /\ trial.env.intent.action = "cancel"
    /\ trial.env.lookup.list.items = <<"evt1", "evt2">>
    /\ trial.env.lookup.match.event_id = "evt9"
    /\ ~trial.out.raised
    /\ trial.out.value.action_taken = "Meeting search failed"
    /\ trial.out.api = <<>>

----------------------------------------------------------------------------
(* The product search *)

Searched(t) == t.fn = "search_products" /\ t.done

\* needle occurs in text as a run of consecutive characters
IsSubstring(needle, text) ==
    \E k \in 1..(Len(text) + 1) :
        /\ k + Len(needle) - 1 <= Len(text)
        /\ \A i \in DOMAIN needle : needle[i] = text[k + i - 1]

SearchedColumns == {"Category", "Subcategory", "ProductName", "Brand", "Description"}

\* The row has a searched column in which, letter case apart, needle occurs
RowContains(row, needle) ==
    \E c \in SearchedColumns : ~row[c].na /\ IsSubstring(lower(needle), lower(row[c].text))

RowsAreMatches(t) ==
    /\ ~t.out.raised
    /\ Len(t.out.rows) <= 5
    /\ \A i \in DOMAIN t.out.rows :
          LET row == t.products_df[t.out.rows[i]]
              words == split(t.query)
          IN \/ RowContains(row, t.query)
             \/ \E w \in DOMAIN words : RowContains(row, words[w])

\* C18 as stated: for every query and every catalog search_products returns
\* at most 5 rows, and every returned row has the whole query, or one word
\* of it, as a substring of one of its searched columns.
C18_Claim == Searched(trial) => RowsAreMatches(trial)

\* What holds of the code: the same, for the queries in which no character
\* has a meaning in a regular expression; and never more than 5 rows.
C18_LiteralQueries ==
    Searched(trial) =>
        /\ (\A i \in DOMAIN trial.query : trial.query[i] \notin {".", "("})
               => RowsAreMatches(trial)
        /\ Len(trial.out.rows) <= 5

\* The columns the word-by-word search looks in
WordColumns == {"Category", "Subcategory", "ProductName", "Brand"}

\* The rows of the catalog, in catalog order, that have needle, letter case
\* apart, as a run of characters in one of the columns
MatchingRows(products_df, columns, needle) ==
    LET has(i) == \E c \in columns :
                      /\ ~products_df[i][c].na
                      /\ IsSubstring(lower(needle), lower(products_df[i][c].text))
    IN SelectSeq(RowIndex(products_df), has)

\* The result is the first 5 rows holding the whole query when there is such
\* a row; otherwise the first 5 rows holding the first word of the query that
\* any row holds, and no row when no row holds any word
WordFallback(t) ==
    LET words == split(t.query)
        whole == MatchingRows(t.products_df, SearchedColumns, t.query)
        hits(w) == MatchingRows(t.products_df, WordColumns, words[w])
        firsts == {w \in DOMAIN words :
                      hits(w) # <<>> /\ \A v \in 1..(w - 1) : hits(v) = <<>>}
    IN /\ ~t.out.raised
       /\ whole # <<>> => t.out.rows = head(whole, 5)
       /\ whole = <<>> =>
             /\ \A w \in firsts : t.out.rows = head(hits(w), 5)
             /\ firsts = {} => t.out.rows = <<>>

\* C26 as stated: search_products matches word by word only when the whole
\* query matches no row; the result is then the rows matching the first word
\* of the query, in query order, that matches any row, and it is empty only
\* when no word matches any row.
C26_Claim == Searched(trial) => WordFallback(trial)

\* What holds of the code: the same, for the queries in which no character
\* has a meaning in a regular expression.
C26_LiteralQueries ==
    Searched(trial) /\ (\A i \in DOMAIN trial.query : trial.query[i] \notin {".", "("})
        => WordFallback(trial)

\* The second word of a query gives the result after the first gave no row
C26_SecondWordReached ==
    /\ Searched(trial)
    /\ trial.query = <<"a", WS, "B">>
    /\ ~trial.out.raised
    /\ trial.out.rows # <<>>
    /\ MatchingRows(trial.products_df, SearchedColumns, trial.query) = <<>>
    /\ MatchingRows(trial.products_df, WordColumns, <<"a">>) = <<>>

----------------------------------------------------------------------------
(* The interactive loop *)

NotExit(user_input) == ~IsExit(user_input)

\* The loop has run the workflow once for each text read that is no exit
\* keyword, and has read nothing after an exit keyword
RanEachInput ==
    /\ loop.ran = SelectSeq(loop.reads, NotExit)
    /\ \A i \in DOMAIN loop.reads : IsExit(loop.reads[i]) => i = Len(loop.reads)

\* C17 as stated: the loop runs the workflow once for each input that is not
\* an exit keyword, and it stops only at the first input whose lower-cased
\* text is quit, exit or q, for which it runs no workflow.
C17_Claim ==
    /\ RanEachInput
    /\ loop.pc \in {"exited", "crashed"}
          => loop.reads # <<>> /\ IsExit(Last(loop.reads))

\* What holds of the code: the same as long as no run_workflow call raises;
\* the loop ends without an exit keyword exactly when one does.
C17_UnlessWorkflowRaises ==
    /\ RanEachInput
    /\ loop.pc = "exited" => loop.reads # <<>> /\ IsExit(Last(loop.reads))
    /\ loop.pc = "crashed" => status = "raised" /\ ~IsExit(Last(loop.reads))
    /\ loop.reads # <<>> /\ IsExit(Last(loop.reads)) => loop.pc = "exited"

----------------------------------------------------------------------------
(* Requests side by side *)

ContextOf(r) == heap[requests[r].state.context]

\* Each request has a context dict of its own, and what the dict holds is,
\* under the key of a specialist, what that specialist returned when this
\* request called it with this request's input
OwnContext ==
    /\ \A r1, r2 \in DOMAIN requests :
          r1 # r2 => requests[r1].state.context # requests[r2].state.context
    /\ \A r \in DOMAIN requests :
          /\ \A i \in DOMAIN requests[r].calls :
                requests[r].calls[i].arg = requests[r].state.input
          /\ \A k \in DOMAIN ContextOf(r) :
                \E i \in DOMAIN requests[r].calls :
                    LET c == requests[r].calls[i]
                    IN /\ KeyOfCallee(c.callee) = k
                       /\ ~c.outcome.raised
                       /\ c.outcome.value = ContextOf(r)[k]

\* A step that changes the state or the context dict of one request leaves
\* the state and the context dict of every other request as they were
OwnStep ==
    \A r \in DOMAIN requests :
        (requests'[r] # requests[r] \/ heap'[requests[r].state.context] # ContextOf(r))
            => \A q \in DOMAIN requests :
                  q # r => /\ requests'[q] = requests[q]
                           /\ heap'[requests[q].state.context] = ContextOf(q)

\* C14: with several run_workflow calls in progress, in every interleaving
\* of their node steps, no step of one request writes the action, context
\* or final_response of another, no two requests share a context, and the
\* context of a request holds only what the specialist called for that
\* request returned.
C14_RequestsApart == []OwnContext /\ [][OwnStep]_allvars

C14_Witness ==
    /\ Len(requests) = 3
    /\ requests[1].state.input = requests[2].state.input
    /\ requests[1].status = "returned"
    /\ requests[2].status = "running" /\ requests[2].node = "response_generator"
    /\ requests[3].status = "running" /\ requests[3].node = "response_generator"
    /\ DOMAIN ContextOf(1) = {"policy_info"}
    /\ DOMAIN ContextOf(2) = {"policy_info"}
    /\ DOMAIN ContextOf(3) = {"booking_info"}

\* C15: two run_workflow calls on the same input, served by the same
\* deterministic model and specialists, return with the same action and the
\* same set of context keys, whatever ran before or between them.
C15_SameInputSameYield ==
    \A r1, r2 \in DOMAIN requests :
        /\ requests[r1].status = "returned"
        /\ requests[r2].status = "returned"
        /\ requests[r1].state.input = requests[r2].state.input
        => /\ requests[r1].yield.action = requests[r2].yield.action
           /\ requests[r1].yield.keys = requests[r2].yield.keys

C15_Witness ==
    /\ Len(requests) = 3
    /\ \A r \in DOMAIN requests : requests[r].status = "returned"
    /\ requests[1].state.input = requests[3].state.input
    /\ requests[2].state.input # requests[1].state.input
    /\ requests[1].yield.keys = {"products_info"}
    /\ requests[2].yield.keys = {"booking_info"}
    /\ requests[3].yield.keys = {"products_info"}
    /\ requests[3].yield.action = DB_QUERY

----------------------------------------------------------------------------
(* The book path of book_appointment *)

\* The path book_appointment takes for every action but cancel and update
OnBookPath(t) == BookedWith(t) /\ t.env.intent.action \notin {"cancel", "update"}

Inserts(api) == {i \in DOMAIN api : api[i].op = "insert"}

\* C21: on the book path, when find_available_slots gives no slot the result
\* is the error payload with action_taken "Slot search failed", and no insert
\* request is sent to the calendar.
C21_NoSlotNoInsert ==
    OnBookPath(trial) /\ trial.env.slots = <<>>
        => /\ trial.out.api = <<>>
           /\ ~trial.out.raised =>
                 /\ trial.out.value.status = "error"
                 /\ trial.out.value.action_taken = "Slot search failed"

C21_Witness ==
    /\ OnBookPath(trial)
    /\ trial.env.intent.action = "book"
    /\ trial.env.slots = <<>>
    /\ ~trial.out.raised
    /\ trial.out.value.action_taken = "Slot search failed"
    /\ trial.out.api = <<>>

\* C22 as stated: a meeting created on the book path starts at the start of
\* one of the free slots find_available_slots returned.
C22_Claim ==
    OnBookPath(trial) =>
        \A i \in Inserts(trial.out.api) :
            \E k \in DOMAIN trial.env.slots :
                trial.out.api[i].selected_time = trial.env.slots[k]

\* What holds of the code: the same when no preferred_time was extracted
C22_WithoutPreferredTime ==
    OnBookPath(trial) /\ trial.env.details.preferred_time \in Falsy =>
        \A i \in Inserts(trial.out.api) :
            \E k \in DOMAIN trial.env.slots :
                trial.out.api[i].selected_time = trial.env.slots[k]

C27_Claim ==
    BookedWith(trial) /\ trial.env.intent.action \notin {"book", "update", "cancel"}
        => /\ Inserts(trial.out.api) = {}
           /\ ~trial.out.raised =>
                 trial.out.value.action_taken \notin
                     {"Slot search failed", "Meeting created successfully",
                      "Failed to create meeting"}

----------------------------------------------------------------------------
(* The free slots of a day *)

SlotsReturned(t) == t.fn = "find_available_slots" /\ t.pc = "returned"

\* The two half-open intervals have a minute in common
Overlap(a, b) ==
    LET lo == IF a.start < b.start THEN b.start ELSE a.start
    IN lo < a.end /\ lo < b.end

\* Every slot starts at 09:00 plus a whole number of half hours, lasts the
\* requested duration, ends by 17:00 and has no minute in common with a busy
\* interval; the slots are in increasing start order
SlotsAreFree(t) ==
    /\ \A i \in DOMAIN t.out :
          /\ t.out[i].start >= time_min
          /\ (t.out[i].start - time_min) % 30 = 0
          /\ t.out[i].end - t.out[i].start = t.duration_minutes
          /\ t.out[i].end <= time_max
          /\ \A j \in DOMAIN t.busy_times : ~Overlap(t.out[i], t.busy_times[j])
    /\ \A i, j \in DOMAIN t.out : i < j => t.out[i].start < t.out[j].start

\* C24 as stated: for every integer duration and every list of busy
\* intervals, every slot find_available_slots returns starts on a 30-minute
\* step from 09:00, has the requested duration as its length, ends no later
\* than 17:00 and overlaps no busy interval, and the slots are in increasing
\* start order.
C24_Claim == SlotsReturned(trial) => SlotsAreFree(trial)

\* The termination part of C24: every call of find_available_slots returns.
C24_Terminates == <>SlotsReturned(trial)

\* What holds of the code: the same for the positive durations, for which
\* the first slot returned is moreover the earliest free one of the day:
\* every free half-hour step of the window that leaves room for the duration
\* is among the slots.
C24_PositiveDurations ==
    SlotsReturned(trial) /\ trial.duration_minutes > 0
        => /\ SlotsAreFree(trial)
           /\ trial.freebusy = "ok" =>
                 \A k \in 0..16 :
                    LET slot == [start |-> time_min + 30 * k,
                                 end |-> time_min + 30 * k + trial.duration_minutes]
                    IN (/\ slot.end <= time_max
                        /\ \A j \in DOMAIN trial.busy_times :
                              ~Overlap(slot, trial.busy_times[j]))
                           => \E i \in DOMAIN trial.out : trial.out[i] = slot

\* A call with busy intervals that returns a free slot after a busy one
C24_FreeAfterBusy ==
    /\ SlotsReturned(trial)
    /\ trial.duration_minutes = 45
    /\ trial.busy_times = <<[start |-> HM(9, 45), end |-> HM(10, 0)]>>
    /\ Len(trial.out) > 1
    /\ trial.out[1] = [start |-> HM(9, 0), end |-> HM(9, 45)]
    /\ trial.out[2].start = HM(10, 0)

----------------------------------------------------------------------------
(* The update path *)

Updated(t) == t.fn = "update" /\ t.done

\* The body of the update request keeps of the stored event what details
\* gives no new value for: the start and end unless details has a non-empty
\* date and a non-empty time, the title, the description and the attendees
\* unless details has a non-empty value for them
KeepsWhatIsNotIn(t, details) ==
    \A i \in DOMAIN t.out.api :
        t.out.api[i].op = "update" =>
            LET body == t.out.api[i].body
            IN /\ ~(TruthyStr(details.preferred_date) /\ TruthyStr(details.preferred_time))
                     => body.start = t.event.start /\ body.end = t.event.end
               /\ ~TruthyStr(details.title) => body.summary = t.event.summary
               /\ ~TruthyStr(details.description) => body.description = t.event.description
               /\ ~TruthyList(details.participants) => body.attendees = t.event.attendees

\* No null reaches update_event
NullsFiltered(t) ==
    /\ DOMAIN t.updated_details = {k \in DetailKeys : ~t.extracted[k].null}
    /\ \A k \in DOMAIN t.updated_details : t.updated_details[k] = t.extracted[k]

\* C25 as stated: on the update path only the fields the request specifies
\* are changed: a null field does not reach update_event, the start and end
\* of the event stay unless the request gives both a date and a time, and
\* the title, description and attendees each stay unless the request gives a
\* non-empty new value.
C25_Claim == Updated(trial) => NullsFiltered(trial) /\ KeepsWhatIsNotIn(trial, trial.request)

\* What holds of the code: the same with the dict extract_meeting_details
\* returned in the place of the request, and a field with a non-empty value
\* in that dict is changed to it.
C25_OfExtractedDetails ==
    Updated(trial) =>
        /\ NullsFiltered(trial)
        /\ KeepsWhatIsNotIn(trial, trial.extracted)
        /\ \A i \in DOMAIN trial.out.api :
              trial.out.api[i].op = "update" =>
                  LET body == trial.out.api[i].body
                      d == trial.extracted
                  IN /\ TruthyStr(d.title) => body.summary = d.title.v
                     /\ TruthyStr(d.description) => body.description = d.description.v
                     /\ TruthyStr(d.preferred_date) /\ TruthyStr(d.preferred_time)
                           => /\ body.start.date = d.preferred_date.v
                              /\ body.end.minutes - body.start.minutes =
                                    IF d.duration_minutes.null THEN 30
                                    ELSE d.duration_minutes.v

\* A request that gives only a new title, decoded: the title alone changes
C25_TitleOnly ==
    /\ Updated(trial)
    /\ trial.decodes
    /\ trial.request.title = J("Review")
    /\ trial.request.preferred_date = JNull
    /\ trial.request.participants = JNull
    /\ trial.request.description = J("")
    /\ Len(trial.out.api) = 2
    /\ trial.out.api[2].body = [trial.event EXCEPT !.summary = "Review"]

====
